---- MODULE Spec2Model ----
(***************************************************************************)
(* A model of the D++ front end of src/src/ParsesIndex.rs: the Lexer, the  *)
(* recursive-descent Parser and the tree-walking helpers                   *)
(* (generate_symbol_table, semantic_analysis, generate_ir,                 *)
(* generate_target_code).                                                  *)
(*                                                                         *)
(* Source text is a sequence of one-character strings.  Rust's `usize`     *)
(* cursors are 0-based, TLA+ sequences are 1-based: character i of the     *)
(* source is input[i + 1].  A Rust panic (unwrap on None, a str slice off  *)
(* a character boundary) is the status "panic".                            *)
(***************************************************************************)
EXTENDS Integers, Sequences, FiniteSets, TLC

VARIABLES
    lexer,            \* struct Lexer { input, tokens, start, current, line }
    parser,           \* struct Parser { tokens, current, ast }
    pc,               \* where the driver stands
    entry,            \* the Parser method the driver calls
    tokenize_result,  \* what Lexer::tokenize returned
    program_nodes,    \* the local Vec of Parser::parse
    parse_result,     \* what the Parser method returned
    symbol_table,     \* what generate_symbol_table returned
    semantic_result,  \* what semantic_analysis returned
    ir,               \* what generate_ir returned
    asm               \* what generate_target_code returned

vars == <<lexer, parser, pc, entry, tokenize_result, program_nodes,
          parse_result, symbol_table, semantic_result, ir, asm>>

-----------------------------------------------------------------------------
(* Characters *)

Lower == {"a","b","c","d","e","f","g","h","i","j","k","l","m",
          "n","o","p","q","r","s","t","u","v","w","x","y","z"}
Upper == {"A","B","C","D","E","F","G","H","I","J","K","L","M",
          "N","O","P","Q","R","S","T","U","V","W","X","Y","Z"}
Digits == {"0","1","2","3","4","5","6","7","8","9"}

\* A letter outside ASCII: one char, two bytes of UTF-8.
NonAscii == "é"

\* char::is_digit(10)
is_digit(c) == c \in Digits

\* char::is_alphanumeric (Unicode)
is_alphanumeric(c) == c \in Lower \cup Upper \cup Digits \cup {NonAscii}

\* The '\0' that Lexer::peek returns at the end of the input.
NUL == "<NUL>"
\* Option::None of chars().nth(i).
None == "<None>"
\* The outcome of a str slice that panics.
SlicePanic == "<panic>"

\* Bytes of the UTF-8 encoding of one char.
len_utf8(c) == IF c = NonAscii THEN 2 ELSE 1

RECURSIVE ByteLen(_)
\* String::len: the length in bytes.
ByteLen(s) == IF s = <<>> THEN 0 ELSE len_utf8(Head(s)) + ByteLen(Tail(s))

\* self.input.chars().nth(i)
nth(inp, i) == IF i < Len(inp) THEN inp[i + 1] ELSE None

RECURSIVE Concat(_)
\* The String made of the chars of s.
Concat(s) == IF s = <<>> THEN "" ELSE Head(s) \o Concat(Tail(s))

\* Byte offset a is on a char boundary of inp.
is_char_boundary(inp, a) == \E k \in 0..Len(inp) : ByteLen(SubSeq(inp, 1, k)) = a

\* &self.input[a..b]: a byte range; panics off a char boundary.
Slice(inp, a, b) ==
    IF a <= b /\ is_char_boundary(inp, a) /\ is_char_boundary(inp, b)
    THEN LET ka == CHOOSE k \in 0..Len(inp) : ByteLen(SubSeq(inp, 1, k)) = a
             kb == CHOOSE k \in 0..Len(inp) : ByteLen(SubSeq(inp, 1, k)) = b
         IN  Concat(SubSeq(inp, ka + 1, kb))
    ELSE SlicePanic

-----------------------------------------------------------------------------
(* Lexer.  A lexer value L is the struct plus the status of the call in    *)
(* progress: "ok", "err" (Err returned, message in error) or "panic".      *)

Token(token_type, value, line, column) ==
    [token_type |-> token_type, value |-> value, line |-> line, column |-> column]

Lexer_new(inp) ==
    [input |-> inp, tokens |-> <<>>, start |-> 0, current |-> 0, line |-> 1,
     status |-> "ok", error |-> ""]

Lexer_is_at_end(L) == L.current >= ByteLen(L.input)

\* peek: None stands for the panic of unwrap.
Lexer_peek(L) == IF Lexer_is_at_end(L) THEN NUL ELSE nth(L.input, L.current)

Panicked(L) == [L EXCEPT !.status = "panic"]

\* advance, the char it returns dropped.
Lexer_advance(L) ==
    IF nth(L.input, L.current) = None THEN Panicked(L)
    ELSE [L EXCEPT !.current = L.current + 1]

match_char_hit(L, expected) ==
    /\ ~Lexer_is_at_end(L)
    /\ nth(L.input, L.current) = expected

\* match_char panics when the cursor is below the byte length but past the chars.
match_char_panics(L) == ~Lexer_is_at_end(L) /\ nth(L.input, L.current) = None

\* match_char that never finds the expected char.
match_char_never(L, expected) ==
    IF match_char_panics(L) THEN Panicked(L) ELSE L

match_char(L, expected) ==
    IF match_char_panics(L) THEN Panicked(L)
    ELSE IF match_char_hit(L, expected) THEN [L EXCEPT !.current = L.current + 1]
    ELSE L

add_token(L, token_type) ==
    LET text == Slice(L.input, L.start, L.current)
    IN  IF text = SlicePanic THEN Panicked(L)
        ELSE [L EXCEPT !.tokens = Append(L.tokens, Token(token_type, text, L.line, L.start))]

RECURSIVE string_loop(_)
\* while self.peek() != '"' && !self.is_at_end() { ... }
string_loop(L) ==
    LET p == Lexer_peek(L)
    IN  IF p = None THEN Panicked(L)
        ELSE IF p # "\"" /\ ~Lexer_is_at_end(L)
        THEN string_loop(Lexer_advance(
                 IF p = "\n" THEN [L EXCEPT !.line = L.line + 1] ELSE L))
        ELSE L

string(L) ==
    LET L1 == string_loop(L)
    IN  IF L1.status = "panic" THEN L1
        ELSE IF Lexer_is_at_end(L1)
        THEN [L1 EXCEPT !.status = "err", !.error = "Unterminated string"]
        ELSE LET L2 == Lexer_advance(L1)
             IN  IF L2.status = "panic" THEN L2
                 ELSE IF Slice(L2.input, L2.start + 1, L2.current - 1) = SlicePanic
                 THEN Panicked(L2)
                 ELSE add_token(L2, "Literal")

RECURSIVE digit_loop(_)
\* while self.peek().is_digit(10) { self.advance(); }
digit_loop(L) ==
    LET p == Lexer_peek(L)
    IN  IF p = None THEN Panicked(L)
        ELSE IF is_digit(p) THEN digit_loop(Lexer_advance(L))
        ELSE L

\* self.input.chars().nth(self.current + 1).unwrap() of number: None panics.
number_fraction(L) ==
    IF Lexer_peek(L) = "."
    THEN IF nth(L.input, L.current + 1) = None THEN Panicked(L)
         ELSE IF is_digit(nth(L.input, L.current + 1))
         THEN digit_loop(Lexer_advance(L))
         ELSE L
    ELSE L

number(L) ==
    LET L1 == digit_loop(L)
    IN  IF L1.status = "panic" THEN L1
        ELSE LET L2 == number_fraction(L1)
             IN  IF L2.status = "panic" THEN L2 ELSE add_token(L2, "Literal")

RECURSIVE identifier_loop(_)
\* while self.peek().is_alphanumeric() || self.peek() == '_' { self.advance(); }
identifier_loop(L) ==
    LET p == Lexer_peek(L)
    IN  IF p = None THEN Panicked(L)
        ELSE IF is_alphanumeric(p) \/ p = "_" THEN identifier_loop(Lexer_advance(L))
        ELSE L

Keywords == {"fn", "let", "if", "else", "while", "return"}

identifier(L) ==
    LET L1 == identifier_loop(L)
    IN  IF L1.status = "panic" THEN L1
        ELSE LET text == Slice(L1.input, L1.start, L1.current)
             IN  IF text = SlicePanic THEN Panicked(L1)
                 ELSE add_token(L1, IF text \in Keywords THEN "Keyword" ELSE "Identifier")

RECURSIVE comment_loop(_)
\* while self.peek() != '\n' && !self.is_at_end() { self.advance(); }
comment_loop(L) ==
    LET p == Lexer_peek(L)
    IN  IF p = None THEN Panicked(L)
        ELSE IF p # "\n" /\ ~Lexer_is_at_end(L) THEN comment_loop(Lexer_advance(L))
        ELSE L

\* The arm shared by '=', '!', '<' and '>': both branches add an Operator.
operator_maybe_eq(L) ==
    LET L1 == match_char(L, "=")
    IN  IF L1.status = "panic" THEN L1 ELSE add_token(L1, "Operator")

\* The second '/' arm of scan_token's match.
slash_arm(L) ==
    LET L1 == match_char(L, "/")
    IN  IF L1.status = "panic" THEN L1
        ELSE IF L1.current # L.current THEN comment_loop(L1)
        ELSE add_token(L1, "Operator")

\* The arms of scan_token's match, tried in the order they are written.
scan_arms(L, c) ==
    IF c \in {"(", ")", "{", "}", ",", ";", ":"} THEN add_token(L, "Separator")
    ELSE IF c \in {"+", "-", "*", "/"} THEN add_token(L, "Operator")
    ELSE IF c \in {"=", "!", "<", ">"} THEN operator_maybe_eq(L)
    ELSE IF c = "\"" THEN string(L)
    ELSE IF c \in Digits THEN number(L)
    ELSE IF c \in Lower \cup Upper \cup {"_"} THEN identifier(L)
    ELSE IF c \in {" ", "\r", "\t"} THEN L
    ELSE IF c = "\n" THEN [L EXCEPT !.line = L.line + 1]
    ELSE IF c = "/" THEN slash_arm(L)
    ELSE [L EXCEPT !.status = "err", !.error = "Unexpected character: " \o c]

scan_token(L) ==
    LET c == nth(L.input, L.current)
    IN  IF c = None THEN Panicked(L)
        ELSE scan_arms(Lexer_advance(L), c)

\* The Token that tokenize pushes after its loop.
eof_token(L) == Token("Separator", "EOF", L.line, L.current)

-----------------------------------------------------------------------------
(* AST nodes (enum ASTNode) *)

Program(nodes) == [kind |-> "Program", nodes |-> nodes]
FunctionDeclaration(name, parameters, return_type, body) ==
    [kind |-> "FunctionDeclaration", name |-> name, parameters |-> parameters,
     return_type |-> return_type, body |-> body]
\* Option::None of an initializer.
NoNode == [kind |-> "None"]
VariableDeclaration(name, var_type, initializer) ==
    [kind |-> "VariableDeclaration", name |-> name, var_type |-> var_type,
     initializer |-> initializer]
Type(name) == [kind |-> "Type", name |-> name]
Block(nodes) == [kind |-> "Block", nodes |-> nodes]
Expression(expr) == [kind |-> "Expression", expr |-> expr]
BinaryOperation(left, operator, right) ==
    [kind |-> "BinaryOperation", left |-> left, operator |-> operator, right |-> right]
UnaryOperation(operator, operand) ==
    [kind |-> "UnaryOperation", operator |-> operator, operand |-> operand]
Literal(value) == [kind |-> "Literal", value |-> value]
Identifier(name) == [kind |-> "Identifier", name |-> name]

-----------------------------------------------------------------------------
(* Parser.  Every parse_* operator takes the token Vec and the cursor      *)
(* self.current and gives the Result with the cursor it leaves behind.     *)

Ok(node, cur) == [ok |-> TRUE, node |-> node, current |-> cur, error |-> ""]
Err(msg, cur) == [ok |-> FALSE, node |-> NoNode, current |-> cur, error |-> msg]

Parser_new(toks) == [tokens |-> toks, current |-> 0, ast |-> NoNode]

Parser_is_at_end(toks, cur) == cur >= Len(toks)

check(toks, cur, token_type, value) ==
    IF Parser_is_at_end(toks, cur) THEN FALSE
    ELSE /\ toks[cur + 1].token_type = token_type
         /\ (value = "" \/ toks[cur + 1].value = value)

\* The cursor after advance.
Parser_advance(toks, cur) == IF ~Parser_is_at_end(toks, cur) THEN cur + 1 ELSE cur

\* previous() with the cursor at cur.
previous(toks, cur) == toks[cur]

\* match_token is check, then advance when it holds.
match_token(toks, cur, token_type, value) == check(toks, cur, token_type, value)

\* match_any over a list of (type, value) pairs.
match_any(toks, cur, pairs) ==
    \E i \in 1..Len(pairs) : check(toks, cur, pairs[i][1], pairs[i][2])

expect_token(toks, cur, token_type, value) ==
    IF check(toks, cur, token_type, value)
    THEN Ok(NoNode, Parser_advance(toks, cur))
    ELSE Err("Expected token: " \o token_type \o " '" \o value \o "'", cur)

\* expect_identifier: node is the name.
expect_identifier(toks, cur) ==
    IF match_token(toks, cur, "Identifier", "")
    THEN Ok(previous(toks, Parser_advance(toks, cur)).value, Parser_advance(toks, cur))
    ELSE Err("Expected identifier", cur)

\* Rust's `?`: an Err is returned at once, an Ok value goes on to K.
Try(r, K(_)) == IF r.ok THEN K(r) ELSE r

parse_type(toks, cur) ==
    Try(expect_identifier(toks, cur), LAMBDA type_name :
        Ok(Type(type_name.node), type_name.current))

EqualityOps == << <<"Operator", "==">>, <<"Operator", "!=">> >>
ComparisonOps == << <<"Operator", ">">>, <<"Operator", ">=">>,
                    <<"Operator", "<">>, <<"Operator", "<=">> >>
TermOps == << <<"Operator", "+">>, <<"Operator", "-">> >>
\* The operator list of parse_term copied into parse_factor.
FactorOps_of_term == << <<"Operator", "+">>, <<"Operator", "-">> >>
FactorOps == << <<"Operator", "*">>, <<"Operator", "/">> >>
UnaryOps == << <<"Operator", "!">>, <<"Operator", "-">> >>

RECURSIVE parse_expression(_, _)
RECURSIVE parse_assignment(_, _)
RECURSIVE parse_equality(_, _)
RECURSIVE parse_equality_loop(_, _, _)
RECURSIVE parse_comparison(_, _)
RECURSIVE parse_comparison_loop(_, _, _)
RECURSIVE parse_term(_, _)
RECURSIVE parse_term_loop(_, _, _)
RECURSIVE parse_factor(_, _)
RECURSIVE parse_factor_loop(_, _, _)
RECURSIVE parse_unary(_, _)
RECURSIVE parse_primary(_, _)

parse_primary(toks, cur) ==
    IF match_token(toks, cur, "Literal", "")
    THEN Ok(Literal(previous(toks, cur + 1).value), cur + 1)
    ELSE IF match_token(toks, cur, "Identifier", "")
    THEN Ok(Identifier(previous(toks, cur + 1).value), cur + 1)
    ELSE IF match_token(toks, cur, "Separator", "(")
    THEN Try(parse_expression(toks, cur + 1), LAMBDA expr :
         Try(expect_token(toks, expr.current, "Separator", ")"), LAMBDA close :
             Ok(expr.node, close.current)))
    ELSE Err("Expected expression", cur)

parse_unary(toks, cur) ==
    IF match_any(toks, cur, UnaryOps)
    THEN Try(parse_unary(toks, cur + 1), LAMBDA right :
             Ok(UnaryOperation(previous(toks, cur + 1).value, right.node),
                right.current))
    ELSE parse_primary(toks, cur)

\* The while loop of parse_factor, expr being the tree built so far.
parse_factor_loop(toks, cur, expr) ==
    IF match_any(toks, cur, FactorOps)
    THEN Try(parse_unary(toks, cur + 1), LAMBDA right :
             parse_factor_loop(toks, right.current,
                 BinaryOperation(expr, previous(toks, cur + 1).value, right.node)))
    ELSE Ok(expr, cur)

parse_factor(toks, cur) ==
    Try(parse_unary(toks, cur), LAMBDA expr :
        parse_factor_loop(toks, expr.current, expr.node))

\* The while loop of parse_term.
parse_term_loop(toks, cur, expr) ==
    IF match_any(toks, cur, TermOps)
    THEN Try(parse_factor(toks, cur + 1), LAMBDA right :
             parse_term_loop(toks, right.current,
                 BinaryOperation(expr, previous(toks, cur + 1).value, right.node)))
    ELSE Ok(expr, cur)

parse_term(toks, cur) ==
    Try(parse_factor(toks, cur), LAMBDA expr :
        parse_term_loop(toks, expr.current, expr.node))

\* The while loop of parse_comparison.
parse_comparison_loop(toks, cur, expr) ==
    IF match_any(toks, cur, ComparisonOps)
    THEN Try(parse_term(toks, cur + 1), LAMBDA right :
             parse_comparison_loop(toks, right.current,
                 BinaryOperation(expr, previous(toks, cur + 1).value, right.node)))
    ELSE Ok(expr, cur)

parse_comparison(toks, cur) ==
    Try(parse_term(toks, cur), LAMBDA expr :
        parse_comparison_loop(toks, expr.current, expr.node))

\* The while loop of parse_equality.
parse_equality_loop(toks, cur, expr) ==
    IF match_any(toks, cur, EqualityOps)
    THEN Try(parse_comparison(toks, cur + 1), LAMBDA right :
             parse_equality_loop(toks, right.current,
                 BinaryOperation(expr, previous(toks, cur + 1).value, right.node)))
    ELSE Ok(expr, cur)

parse_equality(toks, cur) ==
    Try(parse_comparison(toks, cur), LAMBDA expr :
        parse_equality_loop(toks, expr.current, expr.node))

\* parse_assignment without the match on the target.
assignment_target_unchecked(expr, value, cur) ==
    Ok(BinaryOperation(expr, "=", value), cur)

\* The match on the target of parse_assignment, value being the parsed right side.
assignment_target(expr, value, cur) ==
    IF expr.kind = "Identifier"
    THEN Ok(BinaryOperation(Identifier(expr.name), "=", value), cur)
    ELSE Err("Invalid assignment target", cur)

parse_assignment(toks, cur) ==
    Try(parse_equality(toks, cur), LAMBDA expr :
        IF match_token(toks, expr.current, "Operator", "=")
        THEN Try(parse_assignment(toks, expr.current + 1), LAMBDA value :
                 assignment_target(expr.node, value.node, value.current))
        ELSE expr)

parse_expression(toks, cur) == parse_assignment(toks, cur)

parse_expression_statement(toks, cur) ==
    Try(parse_expression(toks, cur), LAMBDA expr :
    Try(expect_token(toks, expr.current, "Separator", ";"), LAMBDA semi :
        Ok(Expression(expr.node), semi.current)))

\* let initializer = if self.match_token(Operator, "=") { Some(..) } else { None };
parse_initializer(toks, cur) ==
    IF match_token(toks, cur, "Operator", "=")
    THEN parse_expression(toks, cur + 1)
    ELSE Ok(NoNode, cur)

parse_variable_declaration(toks, cur) ==
    Try(expect_identifier(toks, cur), LAMBDA name :
    Try(expect_token(toks, name.current, "Separator", ":"), LAMBDA colon :
    Try(parse_type(toks, colon.current), LAMBDA var_type :
    Try(parse_initializer(toks, var_type.current), LAMBDA initializer :
    Try(expect_token(toks, initializer.current, "Separator", ";"), LAMBDA semi :
        Ok(VariableDeclaration(name.node, var_type.node, initializer.node),
           semi.current))))))

parse_statement(toks, cur) ==
    IF match_token(toks, cur, "Keyword", "let")
    THEN parse_variable_declaration(toks, cur + 1)
    ELSE parse_expression_statement(toks, cur)

RECURSIVE parse_block_loop(_, _, _)
\* The while loop of parse_block and the closing brace after it.
parse_block_loop(toks, cur, statements) ==
    IF ~check(toks, cur, "Separator", "}") /\ ~Parser_is_at_end(toks, cur)
    THEN Try(parse_statement(toks, cur), LAMBDA stmt :
             parse_block_loop(toks, stmt.current, Append(statements, stmt.node)))
    ELSE Try(expect_token(toks, cur, "Separator", "}"), LAMBDA close :
             Ok(Block(statements), close.current))

parse_block(toks, cur) ==
    Try(expect_token(toks, cur, "Separator", "{"), LAMBDA open :
        parse_block_loop(toks, open.current, <<>>))

RECURSIVE parse_parameters_loop(_, _, _)
\* The loop of parse_parameters; node is the Vec of parameters.
parse_parameters_loop(toks, cur, parameters) ==
    Try(expect_identifier(toks, cur), LAMBDA param_name :
    Try(expect_token(toks, param_name.current, "Separator", ":"), LAMBDA colon :
    Try(parse_type(toks, colon.current), LAMBDA param_type :
        IF match_token(toks, param_type.current, "Separator", ",")
        THEN parse_parameters_loop(toks, param_type.current + 1,
                 Append(parameters,
                        VariableDeclaration(param_name.node, param_type.node, NoNode)))
        ELSE Ok(Append(parameters,
                       VariableDeclaration(param_name.node, param_type.node, NoNode)),
                param_type.current))))

parse_parameters(toks, cur) ==
    IF ~check(toks, cur, "Separator", ")")
    THEN parse_parameters_loop(toks, cur, <<>>)
    ELSE Ok(<<>>, cur)

parse_function_declaration(toks, cur) ==
    Try(expect_identifier(toks, cur), LAMBDA name :
    Try(expect_token(toks, name.current, "Separator", "("), LAMBDA open :
    Try(parse_parameters(toks, open.current), LAMBDA parameters :
    Try(expect_token(toks, parameters.current, "Separator", ")"), LAMBDA close :
    Try(expect_token(toks, close.current, "Separator", "->"), LAMBDA arrow :
    Try(parse_type(toks, arrow.current), LAMBDA return_type :
    Try(parse_block(toks, return_type.current), LAMBDA body :
        Ok(FunctionDeclaration(name.node, parameters.node, return_type.node,
                               body.node),
           body.current))))))))

parse_declaration(toks, cur) ==
    IF match_token(toks, cur, "Keyword", "fn")
    THEN parse_function_declaration(toks, cur + 1)
    ELSE IF match_token(toks, cur, "Keyword", "let")
    THEN parse_variable_declaration(toks, cur + 1)
    ELSE Err("Expected declaration", cur)

-----------------------------------------------------------------------------
(* generate_symbol_table: the HashMap is a function from names to strings. *)

\* HashMap::new()
EmptyTable == [n \in {} |-> ""]

\* HashMap::insert: a later value replaces the earlier one.
insert(table, name, value) ==
    [n \in DOMAIN table \cup {name} |-> IF n = name THEN value ELSE table[n]]

RECURSIVE join(_, _)
\* Vec<String>::join
join(strs, sep) ==
    IF strs = <<>> THEN ""
    ELSE IF Len(strs) = 1 THEN strs[1]
    ELSE strs[1] \o sep \o join(Tail(strs), sep)

RECURSIVE param_types(_)
\* The loop over parameters of the FunctionDeclaration arm.
param_types(parameters) ==
    IF parameters = <<>> THEN <<>>
    ELSE LET param == Head(parameters)
             rest == param_types(Tail(parameters))
         IN  IF param.kind = "VariableDeclaration" /\ param.var_type.kind = "Type"
             THEN <<param.var_type.name>> \o rest
             ELSE rest

\* The signature string of the FunctionDeclaration arm.
function_signature(node) ==
    LET ret_type == IF node.return_type.kind = "Type" THEN node.return_type.name
                    ELSE "void"
    IN  "fn(" \o join(param_types(node.parameters), ", ") \o ") -> " \o ret_type

RECURSIVE traverse_ast(_, _)
RECURSIVE traverse_nodes(_, _)

\* for node in nodes { traverse_ast(node, table); }
traverse_nodes(nodes, table) ==
    IF nodes = <<>> THEN table
    ELSE traverse_nodes(Tail(nodes), traverse_ast(Head(nodes), table))

traverse_ast(node, table) ==
    IF node.kind = "VariableDeclaration"
    THEN IF node.var_type.kind = "Type"
         THEN insert(table, node.name, node.var_type.name)
         ELSE table
    ELSE IF node.kind = "FunctionDeclaration"
    THEN insert(table, node.name, function_signature(node))
    ELSE IF node.kind \in {"Program", "Block"}
    THEN traverse_nodes(node.nodes, table)
    ELSE table

generate_symbol_table(ast) == traverse_ast(ast, EmptyTable)

-----------------------------------------------------------------------------
(* semantic_analysis: the Result is [ok, error]. *)

SemOk == [ok |-> TRUE, error |-> ""]
SemErr(msg) == [ok |-> FALSE, error |-> msg]

RECURSIVE check_node(_, _)
RECURSIVE check_nodes(_, _)

\* for node in nodes { check_node(node, table)?; }
check_nodes(nodes, table) ==
    IF nodes = <<>> THEN SemOk
    ELSE LET first == check_node(Head(nodes), table)
         IN  IF first.ok THEN check_nodes(Tail(nodes), table) ELSE first

check_node(node, table) ==
    IF node.kind = "BinaryOperation"
    THEN LET left == check_node(node.left, table)
         IN  IF left.ok THEN check_node(node.right, table) ELSE left
    ELSE IF node.kind = "UnaryOperation"
    THEN check_node(node.operand, table)
    ELSE IF node.kind = "Identifier"
    THEN IF node.name \notin DOMAIN table
         THEN SemErr("Undefined variable: " \o node.name)
         ELSE SemOk
    ELSE IF node.kind = "FunctionDeclaration"
    THEN check_node(node.body, table)
    ELSE IF node.kind \in {"Program", "Block"}
    THEN check_nodes(node.nodes, table)
    ELSE SemOk

semantic_analysis(ast, table) == check_node(ast, table)

-----------------------------------------------------------------------------
(* generate_ir: the Vec<String> of instructions. *)

RECURSIVE generate_node_ir(_, _)
RECURSIVE generate_nodes_ir(_, _)
RECURSIVE param_ir(_, _)

\* for stmt in statements { generate_node_ir(stmt, ir); }
generate_nodes_ir(statements, out) ==
    IF statements = <<>> THEN out
    ELSE generate_nodes_ir(Tail(statements), generate_node_ir(Head(statements), out))

\* The loop over parameters of the FunctionDeclaration arm.
param_ir(parameters, out) ==
    IF parameters = <<>> THEN out
    ELSE param_ir(Tail(parameters),
                  IF Head(parameters).kind = "VariableDeclaration"
                  THEN Append(out, "  param " \o Head(parameters).name)
                  ELSE out)

generate_node_ir(node, out) ==
    IF node.kind = "FunctionDeclaration"
    THEN Append(generate_node_ir(node.body,
                    param_ir(node.parameters,
                             Append(out, "function " \o node.name \o ":"))),
                "end_function")
    ELSE IF node.kind = "Block"
    THEN generate_nodes_ir(node.nodes, out)
    ELSE IF node.kind = "VariableDeclaration"
    THEN IF node.initializer.kind # "None"
         THEN Append(generate_node_ir(node.initializer, out), "store " \o node.name)
         ELSE out
    ELSE IF node.kind = "BinaryOperation"
    THEN Append(generate_node_ir(node.right, generate_node_ir(node.left, out)),
                node.operator \o " " \o node.operator)
    ELSE IF node.kind = "UnaryOperation"
    THEN Append(generate_node_ir(node.operand, out), node.operator)
    ELSE IF node.kind = "Literal"
    THEN Append(out, "push " \o node.value)
    ELSE IF node.kind = "Identifier"
    THEN Append(out, "load " \o node.name)
    ELSE out

generate_ir(ast) == generate_node_ir(ast, <<>>)

-----------------------------------------------------------------------------
(* generate_target_code: the Vec<String> of assembly lines. *)

\* char::is_whitespace, for the chars an instruction can hold.
is_whitespace(c) == c \in {" ", "\n", "\t", "\r"}

RECURSIVE split_loop(_, _, _, _)
\* The words of s from char i on, word being the word under way.
split_loop(s, i, word, parts) ==
    IF i > Len(s)
    THEN IF word = "" THEN parts ELSE Append(parts, word)
    ELSE IF is_whitespace(SubSeq(s, i, i))
    THEN split_loop(s, i + 1, "", IF word = "" THEN parts ELSE Append(parts, word))
    ELSE split_loop(s, i + 1, word \o SubSeq(s, i, i), parts)

\* instruction.split_whitespace().collect()
split_whitespace(s) == split_loop(s, 1, "", <<>>)

RECURSIVE trim_end_matches(_, _)
trim_end_matches(s, c) ==
    IF Len(s) > 0 /\ SubSeq(s, Len(s), Len(s)) = c
    THEN trim_end_matches(SubSeq(s, 1, Len(s) - 1), c)
    ELSE s

\* The result of the lines of one instruction; IndexPanic is parts[i] out of
\* bounds.
Lines(lines) == [ok |-> TRUE, asm |-> lines]
IndexPanic == [ok |-> FALSE, asm |-> <<>>]

\* The arm of "+" | "-" | "*" | "/".
arithmetic_arm(op) ==
    <<"    pop rbx", "    pop rax">>
    \o (IF op = "+" THEN <<"    add rax, rbx">>
        ELSE IF op = "-" THEN <<"    sub rax, rbx">>
        ELSE IF op = "*" THEN <<"    imul rax, rbx">>
        ELSE <<"    xor rdx, rdx", "    idiv rbx">>)
    \o <<"    push rax">>

\* match parts[0] { ... }: the lines one instruction gives.
instruction_arms(parts) ==
    IF Len(parts) = 0 THEN IndexPanic
    ELSE IF parts[1] = "function"
    THEN IF Len(parts) < 2 THEN IndexPanic
         ELSE Lines(<<trim_end_matches(parts[2], ":") \o ":",
                      "    push rbp", "    mov rbp, rsp">>)
    ELSE IF parts[1] = "end_function"
    THEN Lines(<<"    mov rsp, rbp", "    pop rbp", "    ret">>)
    ELSE IF parts[1] = "param"
    THEN Lines(<<>>)
    ELSE IF parts[1] = "push"
    THEN IF Len(parts) < 2 THEN IndexPanic
         ELSE Lines(<<"    push " \o parts[2]>>)
    ELSE IF parts[1] = "load"
    THEN IF Len(parts) < 2 THEN IndexPanic
         ELSE Lines(<<"    mov rax, [" \o parts[2] \o "]", "    push rax">>)
    ELSE IF parts[1] = "store"
    THEN IF Len(parts) < 2 THEN IndexPanic
         ELSE Lines(<<"    pop rax", "    mov [" \o parts[2] \o "], rax">>)
    ELSE IF parts[1] \in {"+", "-", "*", "/"}
    THEN Lines(arithmetic_arm(parts[1]))
    ELSE Lines(<<>>)

\* The lines of one instruction of the IR.
instruction_code(instruction) == instruction_arms(split_whitespace(instruction))

RECURSIVE target_loop(_, _)
\* for instruction in ir { ... }
target_loop(instructions, out) ==
    IF instructions = <<>> THEN Lines(out)
    ELSE IF ~instruction_code(Head(instructions)).ok THEN IndexPanic
    ELSE target_loop(Tail(instructions),
                     out \o instruction_code(Head(instructions)).asm)

generate_target_code(instructions) == target_loop(instructions, <<>>)

-----------------------------------------------------------------------------
(* Inputs: source texts handed to Lexer::new, and token Vecs handed to     *)
(* Parser::new.                                                            *)

\* The tokenizer example of the spec.
Text_VarInit ==
    <<"x",":"," ","i","n","t"," ","="," ","1"," ","+"," ","2",";">>

\* One variable declaration.
Text_Let ==
    <<"l","e","t"," ","x",":"," ","i","n","t",";">>

\* Two variable declarations.
Text_TwoLets ==
    <<"l","e","t"," ","x",":"," ","i","n","t",";","\n","l","e","t"," ","y",
      ":"," ","t"," ","="," ","1",";">>

\* A function declaration without parameters.
Text_Fn ==
    <<"f","n"," ","f","(",")"," ","-",">"," ","i","n","t"," ","{"," ","}">>

\* A function declaration with parameters and a body.
Text_FnParams ==
    <<"f","n"," ","f","(","y",":"," ","b","o","o","l",","," ","z",":"," ",
      "t",")"," ","-",">"," ","i","n","t"," ","{"," ","y",";"," ","}">>

\* A line comment, then a declaration.
Text_Comment ==
    <<"/","/"," ","c","\n","l","e","t"," ","x",":"," ","t",";">>

\* A word with two letters outside ASCII, then a space: four chars, six bytes.
Text_NonAsciiWord ==
    <<"a", NonAscii, NonAscii, " ">>

\* A division.
Text_Div ==
    <<"8"," ","/"," ","4",";">>

\* An expression statement.
Text_OnePlusTwo ==
    <<"1"," ","+"," ","2",";">>

\* A reference to an undeclared name.
Text_Undefined ==
    <<"z",";">>

\* An initializer with an undeclared name.
Text_LetUndefined ==
    <<"l","e","t"," ","x",":"," ","t"," ","="," ","z",";">>

\* Multiplication under addition.
Text_Precedence ==
    <<"1"," ","+"," ","2"," ","*"," ","3">>

\* Two subtractions.
Text_LeftAssoc ==
    <<"a"," ","-"," ","b"," ","-"," ","c">>

\* One operator of each binary level.
Text_AllLevels ==
    <<"a"," ","=","="," ","b"," ","<","="," ","c"," ","/"," ","d">>

\* Unary operators under binary ones.
Text_Unary ==
    <<"!","a"," ","!","="," ","-","b"," ",">"," ","1">>

\* A chain of assignments.
Text_AssignChain ==
    <<"a"," ","="," ","b"," ","="," ","c">>

\* An assignment to a literal.
Text_BadTarget ==
    <<"1"," ","="," ","2">>

\* An assignment to a literal with no right side.
Text_BadTargetBadValue ==
    <<"1"," ","="," ",";">>

\* A parenthesised operand.
Text_Paren ==
    <<"(","1"," ","+"," ","2",")"," ","*"," ","a">>

\* The longest text of LexTexts.
MaxLen == 3
\* The most operands of a generated expression.
MaxOperands == 3

\* The chars the texts of LexTexts are made of.
Alphabet == {"a", "1", ".", "/", "=", " ", "\n", "\"", NonAscii}

\* Every text of at most MaxLen chars of Alphabet.
LexTexts == UNION {[1..n -> Alphabet] : n \in 0..MaxLen}

\* The shapes of a generated operand: a name, a number, a negated name.
Forms == {"id", "lit", "neg"}
\* The binary operators of generated expressions, as chars.
GenOps == {<<"=">>, <<"=", "=">>, <<"<">>, <<">", "=">>, <<"+">>, <<"-">>, <<"*">>}

OperandNames == <<"a", "b", "c", "d", "e", "f", "g", "h">>
OperandNumbers == <<"1", "2", "3", "4", "5", "6", "7", "8">>

\* The chars of the i-th operand.
OperandText(i, form) ==
    IF form = "id" THEN <<OperandNames[i]>>
    ELSE IF form = "lit" THEN <<OperandNumbers[i]>>
    ELSE <<"-", OperandNames[i]>>

RECURSIVE ExprText(_, _, _)
\* operand 1, operator 1, operand 2, ... up to operand n.
ExprText(n, forms, ops) ==
    IF n = 1 THEN OperandText(1, forms[1])
    ELSE ExprText(n - 1, forms, ops) \o ops[n - 1] \o OperandText(n, forms[n])

\* Every expression of at most MaxOperands operands joined by GenOps.
ExprTexts ==
    UNION {{ExprText(n, forms, ops) : forms \in [1..n -> Forms],
                                      ops \in [1..(n - 1) -> GenOps]}
           : n \in 1..MaxOperands}

\* The texts parsed as a program by Parser::parse.
ProgramTexts == {Text_VarInit, Text_Let, Text_TwoLets, Text_Fn, Text_FnParams,
                 Text_Comment, Text_NonAsciiWord}
\* The texts parsed by Parser::parse_statement.
StatementTexts == {Text_Div, Text_OnePlusTwo, Text_Undefined, Text_LetUndefined}
\* The texts parsed by Parser::parse_expression.
ExpressionTexts == {Text_Precedence, Text_LeftAssoc, Text_AllLevels, Text_Unary,
                    Text_AssignChain, Text_BadTarget, Text_BadTargetBadValue,
                    Text_Paren}

Kw(v) == <<"Keyword", v>>
Id(v) == <<"Identifier", v>>
Sep(v) == <<"Separator", v>>
Op(v) == <<"Operator", v>>
Lit(v) == <<"Literal", v>>

\* A Vec<Token> of the given (type, value) pairs, on line 1.
MakeTokens(pairs) ==
    [i \in 1..Len(pairs) |-> Token(pairs[i][1], pairs[i][2], 1, i - 1)]

\* fn f(y: bool) -> int { let x: int = 1 + z; z; }
Tokens_FnBody ==
    MakeTokens(<<Kw("fn"), Id("f"), Sep("("), Id("y"), Sep(":"), Id("bool"),
                 Sep(")"), Sep("->"), Id("int"), Sep("{"),
                 Kw("let"), Id("x"), Sep(":"), Id("int"), Op("="), Lit("1"),
                 Op("+"), Id("z"), Sep(";"), Id("z"), Sep(";"), Sep("}")>>)

\* let x: int; fn f(y: bool) -> int { }
Tokens_SymbolTable ==
    MakeTokens(<<Kw("let"), Id("x"), Sep(":"), Id("int"), Sep(";"),
                 Kw("fn"), Id("f"), Sep("("), Id("y"), Sep(":"), Id("bool"),
                 Sep(")"), Sep("->"), Id("int"), Sep("{"), Sep("}")>>)

\* let x: int; let x: bool;
Tokens_Collision ==
    MakeTokens(<<Kw("let"), Id("x"), Sep(":"), Id("int"), Sep(";"),
                 Kw("let"), Id("x"), Sep(":"), Id("bool"), Sep(";")>>)

\* fn f(a: t, b: u) -> int { 1 + 2; }
Tokens_FnExpr ==
    MakeTokens(<<Kw("fn"), Id("f"), Sep("("), Id("a"), Sep(":"), Id("t"),
                 Sep(","), Id("b"), Sep(":"), Id("u"), Sep(")"), Sep("->"),
                 Id("int"), Sep("{"), Lit("1"), Op("+"), Lit("2"), Sep(";"),
                 Sep("}")>>)

\* Token Vecs built by the caller of Parser::new, without a Lexer.
TokenInputs == {Tokens_FnBody, Tokens_SymbolTable, Tokens_Collision, Tokens_FnExpr}

-----------------------------------------------------------------------------
(* The driver: main's Lexer::new, tokenize, Parser::new, parse, and the    *)
(* helpers applied to the AST of a successful parse.                       *)

NoTokens == [ok |-> FALSE, tokens |-> <<>>, error |-> ""]
NoResult == [ok |-> FALSE, node |-> NoNode, current |-> 0, error |-> ""]

\* The variables no call has set yet.
InitRest ==
    /\ tokenize_result = NoTokens
    /\ program_nodes = <<>>
    /\ parse_result = NoResult
    /\ symbol_table = EmptyTable
    /\ semantic_result = SemOk
    /\ ir = <<>>
    /\ asm = <<>>

\* Lexer::new on a source text.
InitText ==
    /\ \E inp \in LexTexts \cup ProgramTexts :
           lexer = Lexer_new(inp) /\ entry = "parse"
    /\ parser = Parser_new(<<>>)
    /\ pc = "tokenize"
    /\ InitRest

\* Lexer::new on the text of a statement.
InitStatement ==
    /\ \E inp \in StatementTexts :
           lexer = Lexer_new(inp) /\ entry = "parse_statement"
    /\ parser = Parser_new(<<>>)
    /\ pc = "tokenize"
    /\ InitRest

\* Lexer::new on the text of an expression.
InitExpression ==
    /\ \E inp \in ExprTexts \cup ExpressionTexts :
           lexer = Lexer_new(inp) /\ entry = "parse_expression"
    /\ parser = Parser_new(<<>>)
    /\ pc = "tokenize"
    /\ InitRest

\* Parser::new on a token Vec.
InitTokens ==
    /\ \E toks \in TokenInputs : parser = Parser_new(toks)
    /\ entry = "parse"
    /\ lexer = Lexer_new(<<>>)
    /\ pc = "parse"
    /\ InitRest

Init == InitText \/ InitStatement \/ InitExpression \/ InitTokens

\* One iteration of the while loop of tokenize.
ScanToken ==
    /\ pc = "tokenize"
    /\ ~Lexer_is_at_end(lexer)
    /\ LET L == scan_token([lexer EXCEPT !.start = lexer.current])
       IN  /\ lexer' = L
           /\ pc' = IF L.status = "panic" THEN "abort"
                    ELSE IF L.status = "err" THEN "done"
                    ELSE "tokenize"
           /\ tokenize_result' = IF L.status = "err"
                                 THEN [ok |-> FALSE, tokens |-> <<>>, error |-> L.error]
                                 ELSE tokenize_result
    /\ UNCHANGED <<parser, entry, program_nodes, parse_result, symbol_table,
                   semantic_result, ir, asm>>

\* The end of tokenize: the EOF token and Ok.
TokenizeEnd ==
    /\ pc = "tokenize"
    /\ Lexer_is_at_end(lexer)
    /\ lexer' = [lexer EXCEPT !.tokens = Append(lexer.tokens, eof_token(lexer))]
    /\ tokenize_result' = [ok |-> TRUE, tokens |-> lexer'.tokens, error |-> ""]
    /\ pc' = "tokenized"
    /\ UNCHANGED <<parser, entry, program_nodes, parse_result, symbol_table,
                   semantic_result, ir, asm>>

\* Parser::new(tokens) of main.
ParserNew ==
    /\ pc = "tokenized"
    /\ parser' = Parser_new(tokenize_result.tokens)
    /\ pc' = "parse"
    /\ UNCHANGED <<lexer, entry, tokenize_result, program_nodes, parse_result,
                   symbol_table, semantic_result, ir, asm>>

\* The loop of parse with error recovery: the Err is recorded, the token that
\* caused it is skipped and the loop goes on.
ParseDeclaration_recovering ==
    /\ pc = "parse"
    /\ entry = "parse"
    /\ ~Parser_is_at_end(parser.tokens, parser.current)
    /\ LET r == parse_declaration(parser.tokens, parser.current)
       IN  /\ parser' = [parser EXCEPT !.current = IF r.ok THEN r.current
                                                  ELSE parser.current + 1]
           /\ program_nodes' = IF r.ok THEN Append(program_nodes, r.node)
                               ELSE program_nodes
           /\ parse_result' = IF r.ok THEN parse_result ELSE r
           /\ pc' = "parse"
    /\ UNCHANGED <<lexer, entry, tokenize_result, symbol_table, semantic_result, ir, asm>>

\* One iteration of the while loop of parse.
ParseDeclaration ==
    /\ pc = "parse"
    /\ entry = "parse"
    /\ ~Parser_is_at_end(parser.tokens, parser.current)
    /\ LET r == parse_declaration(parser.tokens, parser.current)
       IN  /\ parser' = [parser EXCEPT !.current = r.current]
           /\ program_nodes' = IF r.ok THEN Append(program_nodes, r.node)
                               ELSE program_nodes
           /\ parse_result' = IF r.ok THEN parse_result ELSE r
           /\ pc' = IF r.ok THEN "parse" ELSE "done"
    /\ UNCHANGED <<lexer, entry, tokenize_result, symbol_table, semantic_result, ir, asm>>

\* The end of parse: the Program node.
ParseEnd ==
    /\ pc = "parse"
    /\ entry = "parse"
    /\ Parser_is_at_end(parser.tokens, parser.current)
    /\ parser' = [parser EXCEPT !.ast = Program(program_nodes)]
    /\ parse_result' = Ok(Program(program_nodes), parser.current)
    /\ pc' = "parsed"
    /\ UNCHANGED <<lexer, entry, tokenize_result, program_nodes, symbol_table,
                   semantic_result, ir, asm>>

\* A call of parse_statement.
ParseStatement ==
    /\ pc = "parse"
    /\ entry = "parse_statement"
    /\ LET r == parse_statement(parser.tokens, parser.current)
       IN  /\ parser' = [parser EXCEPT !.current = r.current]
           /\ parse_result' = r
           /\ pc' = IF r.ok THEN "parsed" ELSE "done"
    /\ UNCHANGED <<lexer, entry, tokenize_result, program_nodes, symbol_table,
                   semantic_result, ir, asm>>

\* A call of parse_expression.
ParseExpression ==
    /\ pc = "parse"
    /\ entry = "parse_expression"
    /\ LET r == parse_expression(parser.tokens, parser.current)
       IN  /\ parser' = [parser EXCEPT !.current = r.current]
           /\ parse_result' = r
           /\ pc' = IF r.ok THEN "parsed" ELSE "done"
    /\ UNCHANGED <<lexer, entry, tokenize_result, program_nodes, symbol_table,
                   semantic_result, ir, asm>>

\* generate_symbol_table on the parsed AST.
GenerateSymbolTable ==
    /\ pc = "parsed"
    /\ symbol_table' = generate_symbol_table(parse_result.node)
    /\ pc' = "semantic"
    /\ UNCHANGED <<lexer, parser, entry, tokenize_result, program_nodes,
                   parse_result, semantic_result, ir, asm>>

\* semantic_analysis on the parsed AST and its symbol table.
SemanticAnalysis ==
    /\ pc = "semantic"
    /\ semantic_result' = semantic_analysis(parse_result.node, symbol_table)
    /\ pc' = "lower"
    /\ UNCHANGED <<lexer, parser, entry, tokenize_result, program_nodes,
                   parse_result, symbol_table, ir, asm>>

\* generate_ir on the parsed AST.
GenerateIr ==
    /\ pc = "lower"
    /\ ir' = generate_ir(parse_result.node)
    /\ pc' = "emit"
    /\ UNCHANGED <<lexer, parser, entry, tokenize_result, program_nodes,
                   parse_result, symbol_table, semantic_result, asm>>

\* generate_target_code on the IR.
GenerateTargetCode ==
    /\ pc = "emit"
    /\ LET t == generate_target_code(ir)
       IN  /\ asm' = t.asm
           /\ pc' = IF t.ok THEN "done" ELSE "abort"
    /\ UNCHANGED <<lexer, parser, entry, tokenize_result, program_nodes,
                   parse_result, symbol_table, semantic_result, ir>>

Next ==
    \/ ScanToken
    \/ TokenizeEnd
    \/ ParserNew
    \/ ParseDeclaration
    \/ ParseEnd
    \/ ParseStatement
    \/ ParseExpression
    \/ GenerateSymbolTable
    \/ SemanticAnalysis
    \/ GenerateIr
    \/ GenerateTargetCode

Spec == Init /\ [][Next]_vars

-----------------------------------------------------------------------------
(* What the driver has done so far *)

\* Lexer::tokenize has returned Ok.
TokenizeOk == tokenize_result.ok
\* The Parser method has returned.
ParseReturned == parse_result.ok \/ parse_result.error # ""
\* generate_symbol_table has returned.
SymbolTableBuilt == parse_result.ok /\ pc \in {"semantic", "lower", "emit", "done"}
\* semantic_analysis has returned.
SemanticChecked == parse_result.ok /\ pc \in {"lower", "emit", "done"}
\* generate_ir has returned.
IrGenerated == parse_result.ok /\ pc \in {"emit", "done"}
\* generate_target_code has returned.
TargetGenerated == parse_result.ok /\ pc = "done"

\* The (type, value) pairs of a token Vec.
Pairs(toks) == [i \in 1..Len(toks) |-> <<toks[i].token_type, toks[i].value>>]
\* The values of a token Vec.
Values(toks) == [i \in 1..Len(toks) |-> toks[i].value]

-----------------------------------------------------------------------------
(* C1 *)

\* Texts of zero or more well-formed variable declarations, with their count.
DeclarationTexts == {<<>>, Text_Let, Text_TwoLets}
DeclarationCount(text) ==
    IF text = <<>> THEN 0 ELSE IF text = Text_Let THEN 1 ELSE 2

\* C1: when Parser::parse has returned on the tokens that Lexer::tokenize gave
\* for a text of well-formed declarations, it has returned Ok with a Program
\* node holding one node per declaration.
C1_ParseOfTokenizedDeclarations ==
    (/\ entry = "parse"
     /\ TokenizeOk
     /\ lexer.input \in DeclarationTexts
     /\ pc \in {"parsed", "semantic", "lower", "emit", "done"})
    => /\ parse_result.ok
       /\ parse_result.node.kind = "Program"
       /\ Len(parse_result.node.nodes) = DeclarationCount(lexer.input)
       /\ \A i \in 1..Len(parse_result.node.nodes) :
              parse_result.node.nodes[i].kind = "VariableDeclaration"

-----------------------------------------------------------------------------
(* C2 *)

\* The node the grammar gives for each text of a function declaration.
ArrowFunction(text) ==
    IF text = Text_Fn
    THEN FunctionDeclaration("f", <<>>, Type("int"), Block(<<>>))
    ELSE FunctionDeclaration("f",
             <<VariableDeclaration("y", Type("bool"), NoNode),
               VariableDeclaration("z", Type("t"), NoNode)>>,
             Type("int"), Block(<<Expression(Identifier("y"))>>))

\* C2: once parse_declaration has run on the tokens of a function declaration
\* written with "->", parse_function_declaration has given the
\* FunctionDeclaration node with its name, parameters, return type and body.
C2_ArrowFunctionAccepted ==
    (/\ entry = "parse"
     /\ TokenizeOk
     /\ lexer.input \in {Text_Fn, Text_FnParams}
     /\ (ParseReturned \/ parser.current > 0))
    => /\ Len(program_nodes) >= 1
       /\ program_nodes[1] = ArrowFunction(lexer.input)

-----------------------------------------------------------------------------
(* C3 *)

RECURSIVE IdentifierRefs(_)
RECURSIVE IdentifierRefsOfAll(_)
\* The names of the Identifier nodes anywhere in the tree.
IdentifierRefs(node) ==
    IF node.kind = "Identifier" THEN {node.name}
    ELSE IF node.kind = "BinaryOperation"
    THEN IdentifierRefs(node.left) \cup IdentifierRefs(node.right)
    ELSE IF node.kind = "UnaryOperation" THEN IdentifierRefs(node.operand)
    ELSE IF node.kind = "Expression" THEN IdentifierRefs(node.expr)
    ELSE IF node.kind = "VariableDeclaration" THEN IdentifierRefs(node.initializer)
    ELSE IF node.kind = "FunctionDeclaration" THEN IdentifierRefs(node.body)
    ELSE IF node.kind \in {"Program", "Block"} THEN IdentifierRefsOfAll(node.nodes)
    ELSE {}
IdentifierRefsOfAll(nodes) ==
    IF nodes = <<>> THEN {}
    ELSE IdentifierRefs(Head(nodes)) \cup IdentifierRefsOfAll(Tail(nodes))

\* C3: semantic_analysis returns Ok exactly when every Identifier of the AST is
\* a key of the symbol table, and otherwise the UndefinedVariable error of an
\* Identifier that is not a key.
C3_UndefinedReferenceReported ==
    SemanticChecked =>
        LET undefined == IdentifierRefs(parse_result.node) \ DOMAIN symbol_table
        IN  /\ semantic_result.ok <=> undefined = {}
            /\ ~semantic_result.ok =>
                   \E name \in undefined :
                       semantic_result.error = "Undefined variable: " \o name

-----------------------------------------------------------------------------
(* C4 *)

RECURSIVE AllDeclarations(_, _)
RECURSIVE AllDeclarationsOfAll(_, _)
\* The flat table of every declaration of the tree, function bodies included,
\* a later declaration replacing an earlier one of the same name.
AllDeclarations(node, table) ==
    IF node.kind = "VariableDeclaration"
    THEN insert(table, node.name, node.var_type.name)
    ELSE IF node.kind = "FunctionDeclaration"
    THEN AllDeclarations(node.body,
             insert(table, node.name,
                 "fn(" \o join([i \in 1..Len(node.parameters) |->
                                   node.parameters[i].var_type.name], ", ")
                       \o ") -> " \o node.return_type.name))
    ELSE IF node.kind \in {"Program", "Block"}
    THEN AllDeclarationsOfAll(node.nodes, table)
    ELSE table
AllDeclarationsOfAll(nodes, table) ==
    IF nodes = <<>> THEN table
    ELSE AllDeclarationsOfAll(Tail(nodes), AllDeclarations(Head(nodes), table))

\* C4: the table of generate_symbol_table holds every VariableDeclaration of a
\* Program or Block sequence, the Block of a function body included, and every
\* FunctionDeclaration, the later declaration of a name being the one kept.
C4_AllDeclarationsRecorded ==
    SymbolTableBuilt =>
        symbol_table = AllDeclarations(parse_result.node, EmptyTable)

-----------------------------------------------------------------------------
(* C5 *)

RECURSIVE PostOrder(_)
\* Left operand, right operand, then the operator instruction.
PostOrder(expr) ==
    IF expr.kind = "Literal" THEN <<"push " \o expr.value>>
    ELSE IF expr.kind = "Identifier" THEN <<"load " \o expr.name>>
    ELSE IF expr.kind = "UnaryOperation"
    THEN PostOrder(expr.operand) \o <<expr.operator>>
    ELSE PostOrder(expr.left) \o PostOrder(expr.right)
         \o <<expr.operator \o " " \o expr.operator>>

\* C5: the IR of the AST of an expression statement is the post-order
\* instruction sequence of its expression; for "1 + 2;" it is push 1, push 2,
\* + +.
C5_ExpressionStatementLowered ==
    (IrGenerated /\ parse_result.node.kind = "Expression")
    => /\ ir = PostOrder(parse_result.node.expr)
       /\ lexer.input = Text_OnePlusTwo => ir = <<"push 1", "push 2", "+ +">>

-----------------------------------------------------------------------------
(* C6 *)

\* No quote stands before position i of the text.
NoQuoteBefore(inp, i) == \A j \in 1..i : inp[j] # "\""

\* The 0-based positions where "//" stands first in a text, outside a string.
CommentStarts(inp) ==
    {i \in 0..(Len(inp) - 2) :
        /\ inp[i + 1] = "/" /\ inp[i + 2] = "/"
        /\ NoQuoteBefore(inp, i)
        /\ \A j \in 0..(i - 1) : ~(inp[j + 1] = "/" /\ inp[j + 2] = "/")}

\* The position of the first newline from i on, or the length of the text.
LineEnd(inp, i) ==
    IF \E j \in i..(Len(inp) - 1) : inp[j + 1] = "\n"
    THEN CHOOSE j \in i..(Len(inp) - 1) :
             /\ inp[j + 1] = "\n"
             /\ \A k \in i..(j - 1) : inp[k + 1] # "\n"
    ELSE Len(inp)

\* C6: a successful tokenize has no token that starts inside a "//" comment,
\* from the "//" up to the end of its line; and a "/" that is not followed by
\* "/" is one Operator token.
C6_CommentSkipped ==
    TokenizeOk =>
        /\ \A i \in CommentStarts(lexer.input) :
               \A k \in 1..Len(tokenize_result.tokens) :
                   tokenize_result.tokens[k].column \notin
                       i..(LineEnd(lexer.input, i) - 1)
        /\ \A i \in 0..(Len(lexer.input) - 1) :
               (/\ lexer.input[i + 1] = "/"
                /\ NoQuoteBefore(lexer.input, i)
                /\ nth(lexer.input, i + 1) # "/"
                /\ (i > 0 => lexer.input[i] # "/"))
               => \E k \in 1..Len(tokenize_result.tokens) :
                      tokenize_result.tokens[k] =
                          Token("Operator", "/", tokenize_result.tokens[k].line, i)

-----------------------------------------------------------------------------
(* C7 *)

Whitespace == {" ", "\t", "\r", "\n"}
SeparatorChars == {"(", ")", "{", "}", ",", ";", ":"}

\* The tokens before the last one.
Front(toks) == SubSeq(toks, 1, Len(toks) - 1)

\* The token is the text that stands at its column.
StandsAtColumn(inp, tok) ==
    /\ Len(tok.value) >= 1
    /\ tok.column + Len(tok.value) <= Len(inp)
    /\ Concat(SubSeq(inp, tok.column + 1, tok.column + Len(tok.value))) = tok.value

\* The token has the type and the extent the rules give to its first char.
ClassifiedByRule(inp, tok) ==
    LET c == inp[tok.column + 1]
        after == nth(inp, tok.column + Len(tok.value))
    IN  /\ c \notin Whitespace
        /\ c \in Lower \cup Upper \cup {"_"} =>
               /\ tok.token_type =
                      IF tok.value \in Keywords THEN "Keyword" ELSE "Identifier"
               /\ after \notin Lower \cup Upper \cup Digits \cup {"_"}
        /\ c \in Digits => tok.token_type = "Literal" /\ after \notin Digits
        /\ c = "\"" => tok.token_type = "Literal"
        /\ c \in SeparatorChars =>
               tok.token_type = "Separator" /\ Len(tok.value) = 1
        /\ c \in {"+", "-", "*", "/"} =>
               tok.token_type = "Operator" /\ Len(tok.value) = 1
        /\ c \in {"=", "!", "<", ">"} =>
               /\ tok.token_type = "Operator"
               /\ Len(tok.value) = IF nth(inp, tok.column + 1) = "=" THEN 2 ELSE 1

\* C7: a successful tokenize gives the tokens in source order, each classified
\* by the rules with "==", "!=", "<=", ">=" taken whole, nothing for
\* whitespace, every other char inside a token, and one Separator "EOF" as the
\* last token; "x: int = 1 + 2;" gives the nine tokens of the example.
C7_TokensClassifiedInOrder ==
    TokenizeOk =>
        LET toks == tokenize_result.tokens
            inp == lexer.input
            front == Front(toks)
        IN  /\ Len(toks) >= 1
            /\ toks[Len(toks)].token_type = "Separator"
            /\ toks[Len(toks)].value = "EOF"
            /\ \A k \in 1..Len(front) :
                   /\ ~(front[k].token_type = "Separator" /\ front[k].value = "EOF")
                   /\ StandsAtColumn(inp, front[k])
                   /\ ClassifiedByRule(inp, front[k])
            /\ \A k \in 1..(Len(front) - 1) :
                   front[k].column + Len(front[k].value) <= front[k + 1].column
            /\ \A i \in 0..(Len(inp) - 1) :
                   inp[i + 1] \notin Whitespace =>
                       \E k \in 1..Len(front) :
                           /\ front[k].column <= i
                           /\ i < front[k].column + Len(front[k].value)
            /\ inp = Text_VarInit =>
                   Pairs(toks) = <<Id("x"), Sep(":"), Id("int"), Op("="), Lit("1"),
                                   Op("+"), Lit("2"), Sep(";"), Sep("EOF")>>

\* Tokenize has returned the tokens of a text with a two-char operator, words,
\* numbers, separators and spaces.
C7_Witness ==
    /\ TokenizeOk
    /\ lexer.input = Text_AllLevels
    /\ Len(tokenize_result.tokens) = 8

-----------------------------------------------------------------------------
(* C8 *)

\* The binding level of a binary operator, loosest first.
Level(operator) ==
    IF operator \in {"==", "!="} THEN 1
    ELSE IF operator \in {"<", "<=", ">", ">="} THEN 2
    ELSE IF operator \in {"+", "-"} THEN 3
    ELSE IF operator \in {"*", "/"} THEN 4
    ELSE 0

\* The binding level of a node: unary above the binary ones, a primary on top.
NodeLevel(node) ==
    IF node.kind = "BinaryOperation" THEN Level(node.operator)
    ELSE IF node.kind = "UnaryOperation" THEN 5
    ELSE 6

RECURSIVE PrecedenceShaped(_)
\* Under every binary node the left operand binds at least as tightly and the
\* right operand strictly tighter; under a unary node stands a unary or primary.
PrecedenceShaped(node) ==
    IF node.kind = "BinaryOperation"
    THEN /\ Level(node.operator) >= 1
         /\ NodeLevel(node.left) >= Level(node.operator)
         /\ NodeLevel(node.right) > Level(node.operator)
         /\ PrecedenceShaped(node.left)
         /\ PrecedenceShaped(node.right)
    ELSE IF node.kind = "UnaryOperation"
    THEN NodeLevel(node.operand) >= 5 /\ PrecedenceShaped(node.operand)
    ELSE node.kind \in {"Literal", "Identifier"}

RECURSIVE InOrder(_)
\* The token values of an expression tree, left to right.
InOrder(node) ==
    IF node.kind = "BinaryOperation"
    THEN InOrder(node.left) \o <<node.operator>> \o InOrder(node.right)
    ELSE IF node.kind = "UnaryOperation"
    THEN <<node.operator>> \o InOrder(node.operand)
    ELSE IF node.kind = "Literal" THEN <<node.value>>
    ELSE <<node.name>>

\* The tokens before EOF are primaries and operators other than "=".
PrimariesAndOperators(toks) ==
    \A k \in 1..(Len(toks) - 1) :
        /\ toks[k].token_type \in {"Literal", "Identifier", "Operator"}
        /\ toks[k].value # "="

\* C8: parse_expression on primaries joined by binary operators gives the tree
\* of the precedence levels, left-associative inside a level, over all the
\* tokens in order; in "1 + 2 * 3" the "*" node is the right operand of "+",
\* in "a - b - c" the left operand of the outer "-" is "a - b".
C8_PrecedenceTree ==
    (/\ entry = "parse_expression"
     /\ TokenizeOk
     /\ ParseReturned
     /\ PrimariesAndOperators(parser.tokens))
    => /\ parse_result.ok
       /\ parse_result.current = Len(parser.tokens) - 1
       /\ InOrder(parse_result.node) = Values(Front(parser.tokens))
       /\ PrecedenceShaped(parse_result.node)
       /\ lexer.input = Text_Precedence =>
              parse_result.node =
                  BinaryOperation(Literal("1"), "+",
                      BinaryOperation(Literal("2"), "*", Literal("3")))
       /\ lexer.input = Text_LeftAssoc =>
              parse_result.node =
                  BinaryOperation(
                      BinaryOperation(Identifier("a"), "-", Identifier("b")),
                      "-", Identifier("c"))

\* parse_expression has returned the tree of three operands joined by a
\* looser and then a tighter operator.
C8_Witness ==
    /\ entry = "parse_expression"
    /\ ParseReturned
    /\ parse_result.ok
    /\ PrimariesAndOperators(parser.tokens)
    /\ parse_result.node.kind = "BinaryOperation"
    /\ parse_result.node.operator = "+"
    /\ parse_result.node.right.kind = "BinaryOperation"
    /\ parse_result.node.right.operator = "*"

-----------------------------------------------------------------------------
(* C9 *)

RECURSIVE NoAssignment(_)
\* No "=" node in the tree.
NoAssignment(node) ==
    IF node.kind = "BinaryOperation"
    THEN node.operator # "=" /\ NoAssignment(node.left) /\ NoAssignment(node.right)
    ELSE IF node.kind = "UnaryOperation" THEN NoAssignment(node.operand)
    ELSE TRUE

RECURSIVE RightNested(_)
\* The "=" nodes form a chain down the right operands, each with a bare
\* Identifier as its left operand.
RightNested(node) ==
    IF node.kind = "BinaryOperation" /\ node.operator = "="
    THEN node.left.kind = "Identifier" /\ RightNested(node.right)
    ELSE NoAssignment(node)

\* No parenthesis among the tokens.
NoParenthesis(toks) ==
    \A k \in 1..Len(toks) : toks[k].value \notin {"(", ")"}

\* parse_expression has returned, and what parse_equality gave to the left of
\* an "=" is not a bare Identifier.
TargetNotIdentifier ==
    /\ entry = "parse_expression"
    /\ TokenizeOk
    /\ ParseReturned
    /\ LET target == parse_equality(parser.tokens, 0)
       IN  /\ target.ok
           /\ check(parser.tokens, target.current, "Operator", "=")
           /\ target.node.kind # "Identifier"

\* What parse_assignment gives for the right side of the first "=".
RightSide ==
    parse_assignment(parser.tokens, parse_equality(parser.tokens, 0).current + 1)

\* C9 as stated: assignment nests to the right, and a target that is not a bare
\* Identifier always fails with the invalid-assignment-target error.
C9_InvalidTargetAlways ==
    /\ (entry = "parse_expression" /\ TokenizeOk /\ parse_result.ok
        /\ NoParenthesis(parser.tokens))
       => RightNested(parse_result.node)
    /\ TargetNotIdentifier =>
           /\ ~parse_result.ok
           /\ parse_result.node = NoNode
           /\ parse_result.error = "Invalid assignment target"

\* C9 amended: assignment nests to the right with bare Identifiers as targets
\* ("a = b = c" gives a = (b = c)); a target that is not a bare Identifier makes
\* the parse fail without a node, with the invalid-assignment-target error when
\* the right side parses and with the error of the right side when it does not.
C9_InvalidTargetAfterRightSide ==
    /\ (entry = "parse_expression" /\ TokenizeOk /\ parse_result.ok
        /\ NoParenthesis(parser.tokens))
       => RightNested(parse_result.node)
    /\ (lexer.input = Text_AssignChain /\ ParseReturned) =>
           parse_result.node =
               BinaryOperation(Identifier("a"), "=",
                   BinaryOperation(Identifier("b"), "=", Identifier("c")))
    /\ TargetNotIdentifier =>
           /\ ~parse_result.ok
           /\ parse_result.node = NoNode
           /\ parse_result.error =
                  IF RightSide.ok THEN "Invalid assignment target"
                  ELSE RightSide.error

\* parse_expression has refused "1 = 2": a literal target, a right side that
\* parses.
C9_Witness ==
    /\ TargetNotIdentifier
    /\ lexer.input = Text_BadTarget
    /\ RightSide.ok
    /\ parse_result.error = "Invalid assignment target"

-----------------------------------------------------------------------------
(* C10 *)

\* The text starts with the digit "1" and a "." that no digit follows.
DotWithoutDigit(inp) ==
    /\ Len(inp) >= 2
    /\ inp[1] = "1"
    /\ inp[2] = "."
    /\ ~is_digit(nth(inp, 2))

\* C10: tokenize never aborts; after a digit run with a "." that no digit
\* follows, the Literal is the digit run and scanning resumes at the ".", also
\* when the "." ends the text.
C10_TokenizeReturns ==
    /\ pc # "abort"
    /\ (DotWithoutDigit(lexer.input) /\ lexer.start = 0 /\ lexer.current > 0)
       => /\ lexer.current = 1
          /\ Pairs(lexer.tokens) = <<Lit("1")>>

-----------------------------------------------------------------------------
(* C11 *)

\* Lexer::tokenize has returned Err.
TokenizeErr == ~tokenize_result.ok /\ tokenize_result.error # ""
\* The Parser method has returned Err.
ParseErr == ~parse_result.ok /\ parse_result.error # ""

\* No stage after the parser has run.
NoLaterStage ==
    /\ symbol_table = EmptyTable
    /\ semantic_result = SemOk
    /\ ir = <<>>
    /\ asm = <<>>
    /\ pc \notin {"parsed", "semantic", "lower", "emit"}

RECURSIVE FirstFailure(_, _)
\* The result of the first declaration, from cur on, that parse_declaration
\* refuses; Ok when it refuses none.
FirstFailure(toks, cur) ==
    IF Parser_is_at_end(toks, cur) THEN Ok(NoNode, cur)
    ELSE Try(parse_declaration(toks, cur),
             LAMBDA r : FirstFailure(toks, r.current))

\* After an Err of tokenize the parser has not been built nor run, and after
\* an Err of the parser no later stage has run; the Err of Parser::parse is
\* that of the first declaration parse_declaration refuses, the cursor is where
\* that declaration failed, and there is no Program node.
FailFastState ==
    /\ TokenizeErr =>
           /\ parser = Parser_new(<<>>)
           /\ parse_result = NoResult
           /\ program_nodes = <<>>
           /\ NoLaterStage
           /\ pc = "done"
    /\ ParseErr =>
           /\ NoLaterStage
           /\ pc = "done"
    /\ (ParseErr /\ entry = "parse") =>
           /\ parse_result = FirstFailure(parser.tokens, 0)
           /\ parser.current = parse_result.current
           /\ parser.ast = NoNode
           /\ parse_result.node = NoNode

\* After an Err of either stage nothing runs: no token is consumed, no node is
\* added, no result is replaced.
FailFastStep ==
    (TokenizeErr \/ ParseErr) => UNCHANGED vars

\* C11: the pipeline is fail-fast. After an Err of tokenize the parser never
\* runs; after an Err of the parser no later stage runs; Parser::parse returns
\* the Err of the first failing declaration at once, with no Program node and
\* no further token consumed.
C11_FailFast == []FailFastState /\ [][FailFastStep]_vars

\* Parser::parse has returned the Err of a declaration that follows a
\* declaration it accepted.
C11_Witness ==
    /\ entry = "parse"
    /\ ParseErr
    /\ program_nodes # <<>>
    /\ parser.current > 0
    /\ pc = "done"

-----------------------------------------------------------------------------
(* C12 *)

\* What a line of assembly does to the depth of the operand stack.
StackDelta(line) ==
    IF split_whitespace(line) = <<>> THEN 0
    ELSE IF split_whitespace(line)[1] = "push" THEN 1
    ELSE IF split_whitespace(line)[1] = "pop" THEN -1
    ELSE 0

RECURSIVE Depth(_, _)
\* The depth of the stack after the first n lines, 0 being the depth before
\* the expression.
Depth(lines, n) ==
    IF n = 0 THEN 0 ELSE Depth(lines, n - 1) + StackDelta(lines[n])

\* The number of lines of the given kind ("push" or "pop").
Count(lines, word) ==
    Cardinality({n \in 1..Len(lines) :
                    /\ split_whitespace(lines[n]) # <<>>
                    /\ split_whitespace(lines[n])[1] = word})

BinaryOperators == {"=", "==", "!=", "<", "<=", ">", ">=", "+", "-", "*", "/"}
UnaryOperators == {"!", "-"}

\* The instruction generate_node_ir gives for a BinaryOperation.
IsBinaryInstruction(instruction) ==
    \E op \in BinaryOperators : instruction = op \o " " \o op
\* The instruction generate_node_ir gives for a UnaryOperation.
IsUnaryInstruction(instruction) == instruction \in UnaryOperators

\* C12: the assembly of the IR of an expression never pops below the depth the
\* stack had before the expression and leaves one value more; the lines of a
\* binary operator pop two values and push one, those of a unary operator pop
\* one and push one.
C12_OperandStackBalanced ==
    (entry = "parse_expression" /\ TargetGenerated) =>
        /\ \A n \in 0..Len(asm) : Depth(asm, n) >= 0
        /\ Depth(asm, Len(asm)) = 1
        /\ \A i \in 1..Len(ir) :
               /\ IsBinaryInstruction(ir[i]) =>
                      /\ Count(instruction_code(ir[i]).asm, "pop") = 2
                      /\ Count(instruction_code(ir[i]).asm, "push") = 1
               /\ IsUnaryInstruction(ir[i]) =>
                      /\ Count(instruction_code(ir[i]).asm, "pop") = 1
                      /\ Count(instruction_code(ir[i]).asm, "push") = 1

-----------------------------------------------------------------------------
(* C13 *)

\* A step of the scan loop of tokenize: one call of scan_token.
ScanLoopStep == pc = "tokenize" /\ pc' # "tokenized" /\ lexer' # lexer

\* An iteration of the scan loop moves the cursor forward or returns Err.
ScanLoopAdvances ==
    ScanLoopStep => (lexer'.current > lexer.current \/ lexer'.status = "err")

\* No step moves a cursor backwards.
CursorsMonotone ==
    /\ lexer'.current >= lexer.current
    /\ parser'.current >= parser.current

\* The cursors stay inside the chars of the text and the tokens of the Vec.
CursorsBounded ==
    /\ lexer.current <= Len(lexer.input)
    /\ parser.current <= Len(parser.tokens)

\* A result of the parser at cursor cur: Ok past cur, or Err not before cur.
Advances(r, cur) == IF r.ok THEN r.current > cur ELSE r.current >= cur

\* An iteration of a binary-operator loop standing at cur: the operator is
\* consumed, then the operand is parsed by the next level.
OperatorLoopAdvances(toks, cur, ops, operand(_, _)) ==
    match_any(toks, cur, ops) => Advances(operand(toks, cur + 1), cur)

\* Every iteration of the declaration loop, of the statement loop of a block
\* and of the four binary-operator loops, started at any cursor of the Vec the
\* parser holds, advances the cursor or returns Err.
ParserLoopsAdvance ==
    pc = "parse" =>
        \A cur \in 0..Len(parser.tokens) :
            /\ ~Parser_is_at_end(parser.tokens, cur) =>
                   Advances(parse_declaration(parser.tokens, cur), cur)
            /\ (~check(parser.tokens, cur, "Separator", "}")
                /\ ~Parser_is_at_end(parser.tokens, cur)) =>
                   Advances(parse_statement(parser.tokens, cur), cur)
            /\ OperatorLoopAdvances(parser.tokens, cur, EqualityOps, parse_comparison)
            /\ OperatorLoopAdvances(parser.tokens, cur, ComparisonOps, parse_term)
            /\ OperatorLoopAdvances(parser.tokens, cur, TermOps, parse_factor)
            /\ OperatorLoopAdvances(parser.tokens, cur, FactorOps, parse_unary)

\* C13: every iteration of the scan loop of tokenize, of the declaration loop
\* of parse, of the statement loop of a block and of the binary-operator loops
\* advances its cursor or returns Err, and no cursor moves backwards or leaves
\* its input; so tokenize and parse return on every finite input.
C13_LoopsAdvanceOrErr ==
    /\ [][ScanLoopAdvances /\ CursorsMonotone]_vars
    /\ [](CursorsBounded /\ ParserLoopsAdvance)

====
